---- MODULE Spec2Model ----
(***************************************************************************)
(* The two voice-cloning scripts of tvk-api, scripts/clone-voice.py        *)
(* (ElevenLabs) and scripts/fish-audio-clone.py (Fish Audio), as one state *)
(* machine.  A behaviour is one Python process: the module body runs the   *)
(* credential check, and then either the `__main__` workflow runs          *)
(* (runMain) or the module has been imported and one of its functions is   *)
(* called once with arbitrary arguments.  The HTTP transport and the file  *)
(* system are the environment: every request is answered by an arbitrary   *)
(* response of the bounded universe below, or by an exception.             *)
(***************************************************************************)
EXTENDS Integers, Sequences, FiniteSets, TLC

VARIABLES vendor, runMain, envKey, existing, fileSize,
          pc, fn, audio_files, net, response, out,
          opened, handles, result, listing, deleted, raised, exitCode

vars == <<vendor, runMain, envKey, existing, fileSize,
          pc, fn, audio_files, net, response, out,
          opened, handles, result, listing, deleted, raised, exitCode>>

env == <<vendor, runMain, envKey, existing, fileSize>>

-----------------------------------------------------------------------------
(* Bounds of the model *)

\* longest voice list a response carries
MaxVoices == 1
\* longest audio_files argument of create_voice_clone
MaxPaths == 2

-----------------------------------------------------------------------------
(* Python values *)

PyNone == [t |-> "none", s |-> ""]
PyStr(s) == [t |-> "str", s |-> s]

\* str(v), as an f-string renders a value
Str(v) == IF v.t = "none" THEN "None" ELSE v.s

EmptyDict == [k \in {} |-> PyNone]

\* dict.get(k, default): the default only when the key is absent
Get(d, k, default) == IF k \in DOMAIN d THEN d[k] ELSE default

\* dict[k]: KeyError when the key is absent
HasKey(d, k) == k \in DOMAIN d

-----------------------------------------------------------------------------
(* The environment: vendors, files, responses *)

Vendors == {"elevenlabs", "fish"}

AudioFile(v) ==
    IF v = "elevenlabs"
    THEN "/Users/SankarNag/tvk-api/voice-samples/vijay_speech_l_nUecO8oKE.webm"
    ELSE "/Users/SankarNag/tvk-api/voice-samples/vijay_short_speech.webm"

OtherFile == "/tmp/other_sample.webm"

Paths(v) == {AudioFile(v), OtherFile}

MB == 1024 * 1024

WarnLimitMB == 10

Sizes == {2 * MB, 10 * MB, 10 * MB + 1, 15 * MB}

\* os.environ.get(NAME): unset, set to the empty string, set to a key
EnvKeys == {[set |-> FALSE, val |-> ""], [set |-> TRUE, val |-> ""],
            [set |-> TRUE, val |-> "sk_test"]}

\* the value os.environ.get returns is falsy: None or ''
KeyMissingIsNone(k) == ~k.set
KeyMissing(k) == ~k.set \/ k.val = ""

Statuses == {200, 201, 422}

IdFields == {"voice_id", "_id", "id"}

VoiceEntries ==
    { [name |-> PyStr("Vijay TVK"), voice_id |-> PyStr("abc123")],
      [title |-> PyStr("Vijay TVK"), _id |-> PyStr("abc123")],
      EmptyDict }

SeqsUpTo(S, n) == UNION {[1..k -> S] : k \in 0..n}

\* A JSON body: an object (its scalar fields d, and the list l under key
\* lkey when lkey # ""), a bare list l, or text that is no JSON.
JDict(d, lkey, l) == [kind |-> "dict", d |-> d, lkey |-> lkey, l |-> l]
JList(l) == [kind |-> "list", d |-> EmptyDict, lkey |-> "", l |-> l]
JInvalid == [kind |-> "invalid", d |-> EmptyDict, lkey |-> "", l |-> <<>>]
NoBody == [kind |-> "none", d |-> EmptyDict, lkey |-> "", l |-> <<>>]

ListBodies ==
    {JDict(EmptyDict, k, l) : k \in {"voices", "items"}, l \in SeqsUpTo(VoiceEntries, MaxVoices)}
    \cup {JList(l) : l \in SeqsUpTo(VoiceEntries, MaxVoices)}
    \cup {JDict([detail |-> PyStr("not found")], "", <<>>), JInvalid}

CreateBodies ==
    {JDict(d, "", <<>>) :
        d \in UNION {[K -> {PyNone, PyStr("abc123"), PyStr("xyz789")}] : K \in SUBSET IdFields}}
    \cup {JDict([detail |-> PyStr("invalid format")], "", <<>>), JList(<<>>), JInvalid}

Resp(s, b) == [exc |-> FALSE, status |-> s, body |-> b]
TransportError == [exc |-> TRUE, status |-> 0, body |-> NoBody]
NoResponse == [exc |-> FALSE, status |-> 0, body |-> NoBody]

ListResponses == {Resp(s, b) : s \in Statuses, b \in ListBodies} \cup {TransportError}
CreateResponses == {Resp(s, b) : s \in Statuses, b \in CreateBodies} \cup {TransportError}
DeleteResponses == {Resp(s, NoBody) : s \in Statuses} \cup {TransportError}

-----------------------------------------------------------------------------
(* Printed lines *)

\* a printed line: its fixed text (tag) and the values formatted into it
Line(tag, n, s, body) == [tag |-> tag, n |-> n, s |-> s, body |-> body]
Msg(tag) == Line(tag, 0, "", NoBody)

\* f"  - {name}: {voice_id}"
VoiceLine(name, id) == Line("  - name: id", 0, Str(name), JDict([id |-> id], "", <<>>))

\* f"{size_mb:.2f}": hundredths of a megabyte, rounded
SizeMB2f(bytes) == (bytes * 100 + MB \div 2) \div MB

ConfigLine(id) == Line("VIJAY_VOICE_ID=", 0, Str(id), NoBody)

\* what a function call produced
Returned(lines, ret) == [lines |-> lines, raised |-> FALSE, ret |-> ret]
Raised(lines) == [lines |-> lines, raised |-> TRUE, ret |-> NoBody]

EmptyListing == JList(<<>>)

-----------------------------------------------------------------------------
(* list_voices *)

\* clone-voice.py: for voice in voices: print(voice['name'], voice['voice_id'])
RECURSIVE VoiceLinesEL(_)
VoiceLinesEL(voices) ==
    IF voices = <<>> THEN Returned(<<>>, NoBody)
    ELSE LET v == Head(voices) IN
         IF ~(HasKey(v, "name") /\ HasKey(v, "voice_id"))
         THEN Raised(<<>>)                                   \* KeyError
         ELSE LET rest == VoiceLinesEL(Tail(voices)) IN
              [rest EXCEPT !.lines = <<VoiceLine(v["name"], v["voice_id"])>> \o @]

\* fish-audio-clone.py: voice.get('_id', voice.get('id', 'unknown')) and
\* voice.get('title', voice.get('name', 'unknown'))
FishVoiceId(v) == Get(v, "_id", Get(v, "id", PyStr("unknown")))
FishVoiceName(v) == Get(v, "title", Get(v, "name", PyStr("unknown")))

RECURSIVE VoiceLinesFish(_)
VoiceLinesFish(voices) ==
    IF voices = <<>> THEN <<>>
    ELSE <<VoiceLine(FishVoiceName(Head(voices)), FishVoiceId(Head(voices)))>>
         \o VoiceLinesFish(Tail(voices))

\* response.json().get('voices', [])
VoicesFieldEL(body) == IF body.lkey = "voices" THEN body.l ELSE <<>>

ListVoicesEL(resp) ==
    IF resp.exc THEN Raised(<<>>)                            \* requests.get raises
    ELSE IF resp.status = 200 THEN
        IF resp.body.kind # "dict" THEN Raised(<<>>)         \* json() fails, or a list has no .get
        ELSE LET voices == VoicesFieldEL(resp.body)
                 found  == Line("Found n voices:", Len(voices), "", NoBody)
                 loop   == VoiceLinesEL(voices)
             IN  IF loop.raised THEN Raised(<<found>> \o loop.lines)
                 ELSE Returned(<<found>> \o loop.lines, JList(voices))
    ELSE Returned(<<>>, EmptyListing)

\* result.get('items', result) if isinstance(result, dict) else result
VoicesFieldFish(body) ==
    IF body.kind = "dict" /\ body.lkey # "items" THEN body ELSE JList(body.l)

ListVoicesFish(resp) ==
    IF resp.exc THEN Raised(<<>>)                            \* requests.get raises
    ELSE IF resp.status = 200 THEN
        IF resp.body.kind = "invalid" THEN Raised(<<>>)      \* json() fails
        ELSE LET voices == VoicesFieldFish(resp.body) IN
             IF voices.kind = "list"
             THEN Returned(<<Line("Found n voices:", Len(voices.l), "", NoBody)>>
                           \o VoiceLinesFish(voices.l), voices)
             ELSE Returned(<<Line("Response: ", 0, "", resp.body)>>, voices)
    ELSE Returned(<<Line("Error listing voices: ", resp.status, "", NoBody),
                    Line("text", 0, "", resp.body)>>, EmptyListing)

list_voices(v, resp) == IF v = "elevenlabs" THEN ListVoicesEL(resp) ELSE ListVoicesFish(resp)

-----------------------------------------------------------------------------
(* create_voice_clone *)

ResultNone == NoBody

\* bool(result): None and the empty dict are falsy
Truthy(r) == r.kind = "dict" /\ (DOMAIN r.d # {} \/ r.lkey # "")

\* the accepted statuses: == 200, and in [200, 201]
SuccessStatusesWide(v) == {200, 201}
SuccessStatuses(v) == IF v = "elevenlabs" THEN {200} ELSE {200, 201}

\* the identifier the script reads from the create response
VoiceIdIdFirst(v, d) == Get(d, "id", Get(d, "_id", PyNone))
VoiceId(v, d) ==
    IF v = "elevenlabs" THEN Get(d, "voice_id", PyNone)
    ELSE Get(d, "_id", Get(d, "id", PyNone))

\* the audio_files entries that are opened: those os.path.exists accepts
ExistingIndicesAll(paths) == 1..Len(paths)
ExistingIndices(paths) == {i \in 1..Len(paths) : paths[i] \in existing}

\* the part of create_voice_clone before the POST: the lines printed, the
\* handles opened and whether the request is sent
CreateEntryEL(paths) ==
    LET files == ExistingIndices(paths) IN
    IF files = {}
    THEN [lines |-> <<Msg("No valid audio files found!")>>, opened |-> {}, sent |-> FALSE]
    ELSE [lines |-> <<Line("Creating voice clone with n audio file(s)...", Cardinality(files), "", NoBody)>>,
          opened |-> files, sent |-> TRUE]

CreateEntryFish(paths) ==
    LET files == ExistingIndices(paths) IN
    IF files = {}
    THEN [lines |-> <<Line("Audio file not found: ", 0, paths[1], NoBody)>>, opened |-> {}, sent |-> FALSE]
    ELSE [lines |-> <<Line("File size: n MB", SizeMB2f(fileSize), "", NoBody),
                      Msg("Creating voice clone..."), Msg("Uploading to Fish Audio...")>>,
          opened |-> files, sent |-> TRUE]

CreateEntry(v, paths) == IF v = "elevenlabs" THEN CreateEntryEL(paths) ELSE CreateEntryFish(paths)

Done(lines, ret, closed) == [lines |-> lines, raised |-> FALSE, ret |-> ret, closed |-> closed]
Failed(lines, closed) == [lines |-> lines, raised |-> TRUE, ret |-> ResultNone, closed |-> closed]

\* the part after the POST; closed: whether the handles have been closed
CreateFinishEL(resp) ==
    IF resp.exc THEN Failed(<<>>, FALSE)             \* requests.post raises: f.close() is never reached
    ELSE IF resp.status \in SuccessStatuses("elevenlabs") THEN
        IF resp.body.kind # "dict" THEN Failed(<<>>, TRUE)   \* json() fails, or a list has no .get
        ELSE Done(<<Line("Success! Voice ID: ", 0, Str(VoiceId("elevenlabs", resp.body.d)), NoBody)>>,
                  resp.body, TRUE)
    ELSE Done(<<Line("Error: ", resp.status, "", NoBody), Line("text", 0, "", resp.body)>>,
              ResultNone, TRUE)

CreateFinishFish(resp) ==
    IF resp.exc THEN Done(<<Msg("Exception: ")>>, ResultNone, TRUE)
    ELSE LET status == Line("Response status: ", resp.status, "", NoBody) IN
         IF resp.status \in SuccessStatuses("fish") THEN
            IF resp.body.kind # "dict"
            THEN Done(<<status, Msg("Exception: ")>>, ResultNone, TRUE)
            ELSE Done(<<status,
                        Line("Success! Voice ID: ", 0, Str(VoiceId("fish", resp.body.d)), NoBody),
                        Line("Full response: ", 0, "", resp.body)>>, resp.body, TRUE)
         ELSE Done(<<status, Line("Error: ", resp.status, "", NoBody),
                     Line("Response: text", 0, "", resp.body)>>, ResultNone, TRUE)

CreateFinish(v, resp) == IF v = "elevenlabs" THEN CreateFinishEL(resp) ELSE CreateFinishFish(resp)

\* the lines `if result:` prints at the end of __main__
ReportLines(v, r) ==
    IF ~Truthy(r) THEN <<>>
    ELSE IF v = "elevenlabs"
    THEN <<Msg("Voice clone created successfully!"),
           Line("Voice ID: ", 0, Str(VoiceId(v, r.d)), NoBody),
           Msg("Add this to your Vercel environment:"),
           ConfigLine(VoiceId(v, r.d))>>
    ELSE <<Msg("=================================================="),
           Msg("Voice clone created successfully!"),
           Line("Voice ID: ", 0, Str(VoiceId(v, r.d)), NoBody),
           Msg("Add this to your Vercel environment:"),
           ConfigLine(VoiceId(v, r.d))>>

-----------------------------------------------------------------------------
(* The order of __main__ *)

FirstMain(v) == IF v = "elevenlabs" THEN "main_list" ELSE "main_validate"
AfterList(v) == IF v = "elevenlabs" THEN "main_validate" ELSE "main_create"
AfterValidate(v) == IF v = "elevenlabs" THEN "main_size" ELSE "main_list"

\* where a returning function continues
ReturnTo(next) == IF runMain THEN next ELSE "returned"

\* if size_mb > 10
Oversize(bytes) == bytes > WarnLimitMB * MB

\* command-line arguments of an imported create_voice_clone
PathArgs(v) ==
    IF v = "elevenlabs" THEN SeqsUpTo(Paths(v), MaxPaths) ELSE [1..1 -> Paths(v)]

-----------------------------------------------------------------------------
(* Initial state and actions *)

Init ==
    /\ vendor \in Vendors
    /\ runMain \in BOOLEAN
    /\ envKey \in EnvKeys
    /\ existing \in SUBSET Paths(vendor)
    /\ fileSize \in Sizes
    /\ pc = "start"
    /\ fn = "none"
    /\ audio_files = <<>>
    /\ net = <<>>
    /\ response = NoResponse
    /\ out = <<>>
    /\ opened = {}
    /\ handles = {}
    /\ result = ResultNone
    /\ listing = EmptyListing
    /\ deleted = FALSE
    /\ raised = FALSE
    /\ exitCode = 0

\* an exception nothing catches: a traceback and exit status 1 for the
\* script, an exception in the caller for an imported function
Uncaught ==
    /\ raised' = TRUE
    /\ pc' = IF runMain THEN "crashed" ELSE "returned"
    /\ exitCode' = IF runMain THEN 1 ELSE exitCode

\* module body: the credential check, the definitions, the __main__ guard
LoadModule ==
    /\ pc = "start"
    /\ IF KeyMissing(envKey)
       THEN /\ out' = Append(out, Msg("Error: API key environment variable not set"))
            /\ exitCode' = 1
            /\ pc' = "exited"
       ELSE /\ pc' = IF runMain THEN FirstMain(vendor) ELSE "imported"
            /\ UNCHANGED <<out, exitCode>>
    /\ UNCHANGED <<env, fn, audio_files, net, response, opened, handles, result,
                   listing, deleted, raised>>

\* list_voices up to requests.get
ListCall(prefix) ==
    /\ fn' = "list_voices"
    /\ response' = NoResponse
    /\ out' = out \o prefix
    /\ net' = Append(net, "GET")
    /\ pc' = "list_wait"
    /\ UNCHANGED <<env, audio_files, opened, handles, result, listing, deleted,
                   raised, exitCode>>

MainListVoices ==
    /\ pc = "main_list"
    /\ ListCall(<<Msg("Checking existing voices...")>>)

CallListVoices ==
    /\ pc = "imported"
    /\ ListCall(<<>>)

\* list_voices from the response on
ListVoicesReturn ==
    /\ pc = "list_wait"
    /\ \E r \in ListResponses :
        LET o == list_voices(vendor, r) IN
        /\ response' = r
        /\ out' = out \o o.lines
        /\ IF o.raised
           THEN Uncaught /\ UNCHANGED listing
           ELSE /\ listing' = o.ret
                /\ pc' = ReturnTo(AfterList(vendor))
                /\ UNCHANGED <<raised, exitCode>>
    /\ UNCHANGED <<env, fn, audio_files, net, opened, handles, result, deleted>>

\* if not os.path.exists(audio_file): sys.exit(1)
MainValidate ==
    /\ pc = "main_validate"
    /\ IF AudioFile(vendor) \notin existing
       THEN /\ out' = Append(out, Line("Audio file not found: ", 0, AudioFile(vendor), NoBody))
            /\ exitCode' = 1
            /\ pc' = "exited"
       ELSE /\ pc' = AfterValidate(vendor)
            /\ UNCHANGED <<out, exitCode>>
    /\ UNCHANGED <<env, fn, audio_files, net, response, opened, handles, result,
                   listing, deleted, raised>>

\* clone-voice.py: the size report and the oversize warning
MainSize ==
    /\ pc = "main_size"
    /\ out' = out \o <<Line("Audio file size: n MB", SizeMB2f(fileSize), "", NoBody)>>
                  \o (IF Oversize(fileSize)
                      THEN <<Msg("Warning: File is large. ElevenLabs may reject it."),
                             Msg("Consider using ffmpeg to extract a shorter segment.")>>
                      ELSE <<>>)
    /\ pc' = "main_create"
    /\ UNCHANGED <<env, fn, audio_files, net, response, opened, handles, result,
                   listing, deleted, raised, exitCode>>

\* create_voice_clone up to requests.post, or to its early return
CreateCall(paths, prefix) ==
    LET o == CreateEntry(vendor, paths) IN
    /\ fn' = "create_voice_clone"
    /\ audio_files' = paths
    /\ response' = NoResponse
    /\ out' = out \o prefix \o o.lines
    /\ opened' = o.opened
    /\ handles' = o.opened
    /\ IF o.sent
       THEN /\ net' = Append(net, "POST")
            /\ pc' = "post_wait"
            /\ UNCHANGED result
       ELSE /\ result' = ResultNone
            /\ pc' = ReturnTo("main_report")
            /\ UNCHANGED net
    /\ UNCHANGED <<env, listing, deleted, raised, exitCode>>

MainCreate ==
    /\ pc = "main_create"
    /\ CreateCall(<<AudioFile(vendor)>>,
                  IF vendor = "fish"
                  THEN <<Msg("==================================================")>>
                  ELSE <<>>)

CallCreate ==
    /\ pc = "imported"
    /\ \E paths \in PathArgs(vendor) : CreateCall(paths, <<>>)

\* create_voice_clone from the response on
CreateReturn ==
    /\ pc = "post_wait"
    /\ \E r \in CreateResponses :
        LET o == CreateFinish(vendor, r) IN
        /\ response' = r
        /\ out' = out \o o.lines
        /\ handles' = IF o.closed THEN {} ELSE handles
        /\ IF o.raised
           THEN Uncaught /\ UNCHANGED result
           ELSE /\ result' = o.ret
                /\ pc' = ReturnTo("main_report")
                /\ UNCHANGED <<raised, exitCode>>
    /\ UNCHANGED <<env, fn, audio_files, net, opened, listing, deleted>>

\* if result: print the identifier and the configuration line; the script ends
MainReport ==
    /\ pc = "main_report"
    /\ out' = out \o ReportLines(vendor, result)
    /\ pc' = "done"
    /\ exitCode' = 0
    /\ UNCHANGED <<env, fn, audio_files, net, response, opened, handles, result,
                   listing, deleted, raised>>

\* clone-voice.py: delete_voice up to requests.delete
CallDelete ==
    /\ pc = "imported"
    /\ vendor = "elevenlabs"
    /\ fn' = "delete_voice"
    /\ response' = NoResponse
    /\ net' = Append(net, "DELETE")
    /\ pc' = "delete_wait"
    /\ UNCHANGED <<env, audio_files, out, opened, handles, result, listing, deleted,
                   raised, exitCode>>

\* return response.status_code == 200
DeleteReturn ==
    /\ pc = "delete_wait"
    /\ \E r \in DeleteResponses :
        /\ response' = r
        /\ IF r.exc
           THEN Uncaught /\ UNCHANGED deleted
           ELSE /\ deleted' = (r.status = 200)
                /\ pc' = "returned"
                /\ UNCHANGED <<raised, exitCode>>
    /\ UNCHANGED <<env, fn, audio_files, net, out, opened, handles, result, listing>>

Next ==
    \/ LoadModule
    \/ MainListVoices
    \/ CallListVoices
    \/ ListVoicesReturn
    \/ MainValidate
    \/ MainSize
    \/ MainCreate
    \/ CallCreate
    \/ CreateReturn
    \/ MainReport
    \/ CallDelete
    \/ DeleteReturn

Spec == Init /\ [][Next]_vars

-----------------------------------------------------------------------------
(* Vocabulary of the properties *)

\* the API-key environment variable is absent or empty
CredentialAbsent == ~envKey.set \/ envKey.val = ""

\* the process has ended
Terminated == pc \in {"done", "exited", "crashed"}

\* the designated input file of the script is missing
InputMissing == AudioFile(vendor) \notin existing

\* the statuses each vendor accepts, as the specification lists them
AcceptedStatuses == IF vendor = "elevenlabs" THEN {200} ELSE {200, 201}

\* the number of requests of one method sent so far
Sent(method) == Cardinality({i \in 1..Len(net) : net[i] = method})

\* a line of the given text has been printed
Printed(tag) == \E i \in 1..Len(out) : out[i].tag = tag

\* the two lines printed last carry the status code and the raw body
LastLinesAreStatusAndBody(resp) ==
    /\ Len(out) >= 2
    /\ out[Len(out) - 1].n = resp.status
    /\ out[Len(out)].body = resp.body

\* create_voice_clone has been called and is no longer waiting for the POST
CreateCompleted == fn = "create_voice_clone" /\ pc # "post_wait"

\* list_voices has been called and is no longer waiting for the GET
ListCompleted == fn = "list_voices" /\ pc # "list_wait"

\* d carries a string identifier under field f
CarriesId(d, f) == f \in DOMAIN d /\ d[f].t = "str"

\* the line printed last is VIJAY_VOICE_ID=<id>
LastLineIsConfig(id) ==
    /\ Len(out) >= 1
    /\ out[Len(out)].tag = "VIJAY_VOICE_ID="
    /\ out[Len(out)].s = id

\* the script ran to its end after a create request that was answered with
\* an accepted status and a JSON object
SuccessfulRun ==
    /\ runMain /\ pc = "done" /\ fn = "create_voice_clone"
    /\ ~response.exc /\ response.status \in AcceptedStatuses
    /\ response.body.kind = "dict"

-----------------------------------------------------------------------------
(* Properties *)

\* C1: when the API-key variable is absent or empty, no request is ever sent
\* and, once the module body has run, the process has exited with status 1.
C1_NoCredentialExitsBeforeNetwork ==
    CredentialAbsent =>
        /\ net = <<>>
        /\ pc \in {"start", "exited"}
        /\ (pc = "exited" => exitCode = 1)

\* C1 witness: the variable is set to the empty string and the process has
\* exited with status 1 without a request.
C1_Witness ==
    /\ envKey.set /\ envKey.val = ""
    /\ pc = "exited" /\ exitCode = 1 /\ net = <<>>

\* C2 (as claimed): with the credential present and the designated input file
\* missing, no request is sent and the script ends only by exit code 1.
C2_MissingInputNoNetwork ==
    (runMain /\ ~CredentialAbsent /\ InputMissing) =>
        /\ net = <<>>
        /\ (Terminated => pc = "exited" /\ exitCode = 1)

\* C3 (as claimed): create_voice_clone opens exactly the existing paths among
\* its (at least one) audio paths, and once the call has completed, by return
\* or by exception, no handle is left open.
C3_HandlesOpenedAndClosed ==
    (fn = "create_voice_clone" /\ Len(audio_files) >= 1) =>
        /\ opened = {i \in 1..Len(audio_files) : audio_files[i] \in existing}
        /\ (pc # "post_wait" => handles = {})

\* C4 (as claimed): on a non-200 response list_voices prints the status code
\* and the raw body and returns an empty listing, and the script goes on
\* towards clone creation.
C4_ListNon200PrintedAndEmpty ==
    (fn = "list_voices" /\ pc = ReturnTo(AfterList(vendor))
        /\ ~response.exc /\ response.status # 200) =>
        /\ listing = EmptyListing
        /\ ~raised
        /\ LastLinesAreStatusAndBody(response)

\* C5 (as claimed): on a 200 response of any shape list_voices raises nothing
\* and returns the entries (voices field, items field, bare list) or, for an
\* unrecognized object, an empty listing after printing the raw response.
C5_ListShapesNeverRaise ==
    (ListCompleted /\ ~response.exc /\ response.status = 200
        /\ response.body.kind \in {"dict", "list"}) =>
        /\ ~raised
        /\ pc # "crashed"
        /\ IF response.body.kind = "list" \/ response.body.lkey \in {"voices", "items"}
           THEN listing = JList(response.body.l)
           ELSE /\ listing = EmptyListing
                /\ \E i \in 1..Len(out) : out[i].body = response.body

\* C6 (as claimed): after a successful create response that carries a string
\* identifier under voice_id, _id or id, the last line printed is
\* VIJAY_VOICE_ID=<identifier>, for either vendor.
C6_AnyFieldRoundTrip ==
    SuccessfulRun =>
        LET d == response.body.d IN
        (\E f \in IdFields : CarriesId(d, f)) =>
            \E f \in IdFields : CarriesId(d, f) /\ LastLineIsConfig(d[f].s)

\* C6 (amended): the ElevenLabs script prints the identifier carried under
\* voice_id; the Fish Audio script prints the one carried under _id, and the
\* one carried under id when the response has no _id field.
C6_VendorFieldRoundTrip ==
    SuccessfulRun =>
        LET d == response.body.d IN
        /\ (vendor = "elevenlabs" /\ CarriesId(d, "voice_id")
                => LastLineIsConfig(d["voice_id"].s))
        /\ (vendor = "fish" /\ CarriesId(d, "_id")
                => LastLineIsConfig(d["_id"].s))
        /\ (vendor = "fish" /\ "_id" \notin DOMAIN d /\ CarriesId(d, "id")
                => LastLineIsConfig(d["id"].s))

\* C6 witness: Fish Audio answers 201 with the identifier under id only, and
\* the script ends with VIJAY_VOICE_ID=xyz789.
C6_Witness ==
    /\ SuccessfulRun /\ vendor = "fish" /\ response.status = 201
    /\ DOMAIN response.body.d = {"id"}
    /\ response.body.d["id"] = PyStr("xyz789")
    /\ LastLineIsConfig("xyz789")

\* C7: after a create response whose status the vendor does not accept, the
\* call has returned None without raising, and the last two lines printed are
\* the status code and the raw body.
C7_RejectedCreateReturnsNone ==
    (CreateCompleted /\ response # NoResponse /\ ~response.exc
        /\ response.status \notin AcceptedStatuses) =>
        /\ result = ResultNone
        /\ ~raised
        /\ pc # "crashed"
        /\ LastLinesAreStatusAndBody(response)

\* C7 witness: ElevenLabs answers 201, outside its accepted set, and the
\* imported create_voice_clone has returned None.
C7_Witness ==
    /\ vendor = "elevenlabs" /\ ~runMain /\ pc = "returned"
    /\ fn = "create_voice_clone"
    /\ ~response.exc /\ response.status = 201
    /\ result = ResultNone /\ ~raised

\* C8: when none of the audio paths exists, create_voice_clone never sends a
\* request, opens nothing, and has returned None.
C8_NoValidFilesNoTransport ==
    (fn = "create_voice_clone"
        /\ \A i \in 1..Len(audio_files) : audio_files[i] \notin existing) =>
        /\ pc # "post_wait"
        /\ Sent("POST") = 0
        /\ response = NoResponse
        /\ opened = {}
        /\ result = ResultNone
        /\ ~raised

\* C8 witness: an imported create_voice_clone was given two missing paths
\* and has returned without a request.
C8_Witness ==
    /\ fn = "create_voice_clone" /\ pc = "returned" /\ vendor = "elevenlabs"
    /\ Len(audio_files) = 2
    /\ \A i \in 1..Len(audio_files) : audio_files[i] \notin existing
    /\ net = <<>> /\ result = ResultNone

\* C9 (as claimed): in either script, when the designated input file is larger
\* than 10 MB the oversize warning has been printed by the time
\* create_voice_clone is called, and the upload is then sent.
C9_OversizeWarnedBeforeUpload ==
    (runMain /\ fileSize > 10 * MB) =>
        /\ (pc \in {"main_create", "post_wait"}
                => Printed("Warning: File is large. ElevenLabs may reject it."))
        /\ (pc \in {"main_report", "done"} => Sent("POST") = 1)

\* C10 (as claimed): a script sends at most one POST; after a failed upload it
\* sends nothing more, prints no configuration line and does not end with
\* exit code 1, which is kept for a missing credential or input file.
C10_FailedUploadIsTerminal ==
    runMain =>
        /\ Sent("POST") <= 1
        /\ (CreateCompleted /\ (response.exc \/ response.status \notin AcceptedStatuses)) =>
                /\ net[Len(net)] = "POST"
                /\ ~Printed("VIJAY_VOICE_ID=")
                /\ exitCode # 1
        /\ (CreateCompleted /\ exitCode = 1) => (CredentialAbsent \/ InputMissing)
====
